---- MODULE Spec2Model ----
(***************************************************************************)
(* Cart-to-order conversion and role-scoped access control of the          *)
(* ServiceEase backend (orders, services and common apps).                 *)
(*                                                                         *)
(* The relational store is the shared state.  The project wraps no view    *)
(* and no serializer in a transaction, so every ORM statement commits on   *)
(* its own and requests of different workers interleave between            *)
(* statements.  Handlers the interleaving claims are about (checkout,      *)
(* cart get_or_create, cart-item create) are modelled statement by         *)
(* statement; the other handlers are one action each.                      *)
(***************************************************************************)
EXTENDS Integers, FiniteSets, Sequences, TLC

\* ------------------------------------------------------------------ bounds
MaxRequests == 5     \* responses sent in a run of the single worker
MaxConcurrent == 4   \* responses sent in a run of the two workers
MaxAdd == 2          \* largest quantity one request asks for
MaxPrice == 2        \* service prices range over 1..MaxPrice
MaxOrderRequests == 5  \* responses sent in a run of the order lifecycle
MaxRoleRequests == 4   \* requests taken in a run of the role resolver
MaxCalls == 3          \* role resolver calls made by one request

\* ------------------------------------------------------------------ principals
Users == {"alice", "bob", "root"}
\* user.groups.filter(name='Admin')
AdminGroup == {"root"}
Procs == {"w1", "w2"}
ServiceIds == {"s1", "s2"}
NoUser == "nobody"
NoService == "nosvc"

VARIABLES
    carts,        \* rows of orders_cart:      [id, user]
    cartItems,    \* rows of orders_cartitem:  [id, cart, service, quantity]
    orders,       \* rows of orders_order:     [id, client, status, total_price]
    orderItems,   \* rows of orders_orderitem: [id, order, service, quantity]
    services,     \* rows of services_service: [id, price]
    nextId,       \* the four primary-key sequences
    pc,           \* position of each worker's request
    loc,          \* locals of each worker's request
    rsp,          \* the response sent last, numbered
    hist,         \* history: the checkouts that returned 201
    users         \* rows of accounts_user: [username, admin, is_staff], admin
                  \* being membership of the group named Admin

vars == <<carts, cartItems, orders, orderItems, services, nextId, pc, loc, rsp, hist, users>>
db == <<carts, cartItems, orders, orderItems, services, nextId>>

\* ------------------------------------------------------------------ role resolver
\* user.groups.filter(name='Admin').exists()
InAdminGroup(u) == \E r \in users : r.username = u /\ r.admin
\* The answer of the role resolver in a request of u.
is_user_admin(u) == InAdminGroup(u)

\* ------------------------------------------------------------------ persistence
CartOf(u) == {c \in carts : c.user = u}
CartById(id) == {c \in carts : c.id = id}
ItemsOf(cid) == {i \in cartItems : i.cart = cid}
ItemFor(cid, s) == {i \in cartItems : i.cart = cid /\ i.service = s}
ServiceById(s) == {x \in services : x.id = s}
OrderById(id) == {o \in orders : o.id = id}
OrderItemsOf(oid) == {i \in orderItems : i.order = oid}
PriceOf(s) == (CHOOSE x \in services : x.id = s).price

\* Cart.user is a OneToOneField: the column is UNIQUE.
CartUserFree_NoUnique(u, except) == TRUE
CartUserFree(u, except) == \A c \in carts : c.user = u => c.id = except

\* CartItem: unique_together (cart, service), both foreign keys, and the
\* PositiveIntegerField's CHECK (quantity >= 0).
CartItemRowOk(cid, s, q, except) ==
    /\ CartById(cid) # {}
    /\ ServiceById(s) # {}
    /\ q >= 0
    /\ \A i \in ItemFor(cid, s) : i.id = except

\* OrderItem: both foreign keys and the CHECK (quantity >= 0).
OrderItemRowOk(oid, s, q) ==
    /\ OrderById(oid) # {}
    /\ ServiceById(s) # {}
    /\ q >= 0

\* on_delete=CASCADE from Cart to its items.
CascadeCart_All(cid) == {}
CascadeCart(cid) == {i \in cartItems : i.cart # cid}

\* ------------------------------------------------------------------ requests
\* hasCache and cache are the attribute _is_admin_cached of request.user, an
\* object built for the request; lookups counts the membership queries of the
\* request, calls its role resolver calls, answer is what the last call returned.
NoLoc == [op |-> "none", user |-> NoUser, client |-> NoUser, cart |-> 0,
          svc |-> NoService, qty |-> 0, item |-> 0, itemQty |-> 0,
          snap |-> {}, todo |-> {}, order |-> 0, total |-> 0,
          hasCache |-> FALSE, cache |-> FALSE, lookups |-> 0, calls |-> 0,
          site |-> "none", answer |-> FALSE]

Begin(op, u) == [NoLoc EXCEPT !.op = op, !.user = u]

\* The response of the request l: HTTP status, error detail, returned id.
\* twice records that the response before it was a success of the same view
\* for the same principal.
\* rows is the set of ids a list response carries.
Respond(p, l, code, detail, ret, rows) ==
    /\ pc' = [pc EXCEPT ![p] = "idle"]
    /\ loc' = [loc EXCEPT ![p] = NoLoc]
    /\ rsp' = [n |-> rsp.n + 1, op |-> l.op, user |-> l.user, code |-> code,
               detail |-> detail, ret |-> ret, rows |-> rows,
               twice |-> (rsp.op = l.op /\ rsp.user = l.user /\ rsp.code < 300)]

\* The response of a view of the orders and services apps, which write no user.
FinishRows(p, l, code, detail, ret, rows) ==
    /\ Respond(p, l, code, detail, ret, rows)
    /\ UNCHANGED users

Finish(p, l, code, detail, ret) == FinishRows(p, l, code, detail, ret, {})

Goto(p, label, l) ==
    /\ pc' = [pc EXCEPT ![p] = label]
    /\ loc' = [loc EXCEPT ![p] = l]
    /\ UNCHANGED <<rsp, users>>

Init ==
    /\ carts = {}
    /\ cartItems = {}
    /\ orders = {}
    /\ orderItems = {}
    /\ services = {[id |-> "s1", price |-> 1], [id |-> "s2", price |-> 2]}
    /\ nextId = [cart |-> 1, item |-> 1, order |-> 1, oitem |-> 1]
    /\ pc = [p \in Procs |-> "idle"]
    /\ loc = [p \in Procs |-> NoLoc]
    /\ rsp = [n |-> 0, op |-> "none", user |-> NoUser, code |-> 0, detail |-> "none",
              ret |-> 0, rows |-> {}, twice |-> FALSE]
    /\ hist = {}
    /\ users = {[username |-> u, admin |-> u \in AdminGroup, is_staff |-> u \in AdminGroup] :
                   u \in Users}

\* ------------------------------------------------------------------ CartViewSet
\* list and create of a non-admin: Cart.objects.get_or_create(user=request.user).
\* get_or_create is a get, then on DoesNotExist a create, then on
\* IntegrityError a second get.
CartGetOrCreate_PlainCreate(p, u, view) ==
    /\ pc[p] = "idle"
    /\ ~is_user_admin(u)
    /\ LET l == [Begin(view, u) EXCEPT !.client = u]
       IN IF CartOf(u) # {}
          THEN Finish(p, l, 500, "IntegrityError", 0)
          ELSE Goto(p, "goc_create", l)
    /\ UNCHANGED <<db, hist>>

CartGetOrCreate(p, u, view) ==
    /\ pc[p] = "idle"
    /\ ~is_user_admin(u)
    /\ LET l == [Begin(view, u) EXCEPT !.client = u]
       IN IF CartOf(u) # {}
          THEN LET c == CHOOSE c \in CartOf(u) : TRUE
               IN Finish(p, [l EXCEPT !.cart = c.id], 200, "none", c.id)
          ELSE Goto(p, "goc_create", l)
    /\ UNCHANGED <<db, hist>>

CartViewSet_list(p, u) == CartGetOrCreate(p, u, "cart_list")
CartViewSet_create(p, u) == CartGetOrCreate(p, u, "cart_create")

GetOrCreate_create(p) ==
    /\ pc[p] = "goc_create"
    /\ LET l == loc[p]
       IN IF CartUserFree(l.user, 0)
          THEN /\ carts' = carts \cup {[id |-> nextId.cart, user |-> l.user]}
               /\ nextId' = [nextId EXCEPT !.cart = @ + 1]
               /\ Finish(p, [l EXCEPT !.cart = nextId.cart],
                         IF l.op = "cart_create" THEN 201 ELSE 200, "created", nextId.cart)
          ELSE /\ Goto(p, "goc_reget", l)
               /\ UNCHANGED <<carts, nextId>>
    /\ UNCHANGED <<cartItems, orders, orderItems, services, hist>>

GetOrCreate_reget(p) ==
    /\ pc[p] = "goc_reget"
    /\ LET l == loc[p]
       IN IF CartOf(l.user) # {}
          THEN LET c == CHOOSE c \in CartOf(l.user) : TRUE
               IN Finish(p, [l EXCEPT !.cart = c.id], 200, "none", c.id)
          ELSE Finish(p, l, 500, "IntegrityError", 0)
    /\ UNCHANGED <<db, hist>>

\* create of an admin: ModelViewSet.create with CartSerializer; the user field
\* is declared on the serializer, so no uniqueness validator runs and the
\* INSERT meets the UNIQUE column.
CartViewSet_create_admin(p, u, target) ==
    /\ pc[p] = "idle"
    /\ is_user_admin(u)
    /\ LET l == [Begin("cart_create", u) EXCEPT !.client = target]
       IN IF CartUserFree(target, 0)
          THEN /\ carts' = carts \cup {[id |-> nextId.cart, user |-> target]}
               /\ nextId' = [nextId EXCEPT !.cart = @ + 1]
               /\ Finish(p, [l EXCEPT !.cart = nextId.cart], 201, "created", nextId.cart)
          ELSE /\ Finish(p, l, 500, "IntegrityError", 0)
               /\ UNCHANGED <<carts, nextId>>
    /\ UNCHANGED <<cartItems, orders, orderItems, services, hist>>

\* The carts get_queryset shows to u.
CartQueryset(u) == IF is_user_admin(u) THEN carts ELSE CartOf(u)

\* update / partial_update: the user field accepts any user from an admin and
\* only the caller from a non-admin.
CartViewSet_update(p, u, cid, target) ==
    /\ pc[p] = "idle"
    /\ LET l == [Begin("cart_update", u) EXCEPT !.client = target, !.cart = cid]
           found == {c \in CartQueryset(u) : c.id = cid}
       IN IF found = {}
          THEN Finish(p, l, 404, "NotFound", 0) /\ UNCHANGED carts
          ELSE IF ~is_user_admin(u) /\ target # u
          THEN Finish(p, l, 400, "ValidationError", 0) /\ UNCHANGED carts
          ELSE IF ~CartUserFree(target, cid)
          THEN Finish(p, l, 500, "IntegrityError", 0) /\ UNCHANGED carts
          ELSE /\ carts' = (carts \ found) \cup {[id |-> cid, user |-> target]}
               /\ Finish(p, l, 200, "none", cid)
    /\ UNCHANGED <<cartItems, orders, orderItems, services, nextId, hist>>

\* destroy: the object comes from get_queryset, then instance.delete().
CartViewSet_destroy(p, u, cid) ==
    /\ pc[p] = "idle"
    /\ LET l == [Begin("cart_destroy", u) EXCEPT !.cart = cid]
           found == {c \in CartQueryset(u) : c.id = cid}
       IN IF found = {}
          THEN Finish(p, l, 404, "NotFound", 0) /\ UNCHANGED <<carts, cartItems>>
          ELSE /\ carts' = carts \ found
               /\ cartItems' = CascadeCart(cid)
               /\ Finish(p, l, 204, "none", 0)
    /\ UNCHANGED <<orders, orderItems, services, nextId, hist>>

\* ------------------------------------------------------------------ CartItemViewSet
Quantities == (0 - 1) .. MaxAdd

\* cart.user != request.user and not is_user_admin(request)
NotAllowedToModify_Never(u, c) == FALSE
NotAllowedToModify(u, c) == c.user # u /\ ~is_user_admin(u)

\* create: Cart.objects.get(pk=cart_pk), the owner check, then
\* CartItem.objects.get_or_create(cart, service_id, defaults={quantity}); this
\* step runs up to the get of get_or_create.
CartItemViewSet_create(p, u, cid, s, q) ==
    /\ pc[p] = "idle"
    /\ LET l == [Begin("item_create", u) EXCEPT !.cart = cid, !.svc = s, !.qty = q]
           cart == CartById(cid)
           item == ItemFor(cid, s)
       IN IF cart = {}
          THEN Finish(p, l, 404, "Cart not found.", 0)
          ELSE IF NotAllowedToModify(u, CHOOSE c \in cart : TRUE)
          THEN Finish(p, l, 403, "Not allowed to modify this cart.", 0)
          ELSE IF s = NoService
          THEN Finish(p, l, 400, "service required", 0)
          ELSE IF item = {}
          THEN Goto(p, "item_insert", l)
          ELSE LET i == CHOOSE i \in item : TRUE
               IN Goto(p, "item_save", [l EXCEPT !.item = i.id, !.itemQty = i.quantity])
    /\ UNCHANGED <<db, hist>>

\* The create of get_or_create; an IntegrityError of any kind leads to the
\* second get.
CartItem_insert(p) ==
    /\ pc[p] = "item_insert"
    /\ LET l == loc[p]
       IN IF CartItemRowOk(l.cart, l.svc, l.qty, 0)
          THEN /\ cartItems' = cartItems \cup
                     {[id |-> nextId.item, cart |-> l.cart, service |-> l.svc,
                       quantity |-> l.qty]}
               /\ nextId' = [nextId EXCEPT !.item = @ + 1]
               /\ Finish(p, l, 201, "created", nextId.item)
          ELSE /\ Goto(p, "item_reget", l)
               /\ UNCHANGED <<cartItems, nextId>>
    /\ UNCHANGED <<carts, orders, orderItems, services, hist>>

CartItem_reget(p) ==
    /\ pc[p] = "item_reget"
    /\ LET l == loc[p]
           item == ItemFor(l.cart, l.svc)
       IN IF item = {}
          THEN Finish(p, l, 500, "IntegrityError", 0)
          ELSE LET i == CHOOSE i \in item : TRUE
               IN Goto(p, "item_save", [l EXCEPT !.item = i.id, !.itemQty = i.quantity])
    /\ UNCHANGED <<db, hist>>

\* cart_item.quantity += quantity
IncrementedQuantity_Overwrite(old, q) == q
IncrementedQuantity(old, q) == old + q

\* cart_item.quantity += quantity; cart_item.save().  save() is an UPDATE of
\* every column by primary key, and an INSERT of the row when no row has the key.
CartItem_save(p) ==
    /\ pc[p] = "item_save"
    /\ LET l == loc[p]
           row == [id |-> l.item, cart |-> l.cart, service |-> l.svc,
                   quantity |-> IncrementedQuantity(l.itemQty, l.qty)]
       IN IF CartItemRowOk(l.cart, l.svc, row.quantity, l.item)
          THEN /\ cartItems' = {i \in cartItems : i.id # l.item} \cup {row}
               /\ Finish(p, l, 201, "none", l.item)
          ELSE /\ Finish(p, l, 500, "IntegrityError", 0)
               /\ UNCHANGED cartItems
    /\ UNCHANGED <<carts, orders, orderItems, services, nextId, hist>>

\* ------------------------------------------------------------------ checkout
\* OrderViewSet.create: serializer validation, then OrderSerializer.create up
\* to the emptiness test.  The cart is read with its items and their services
\* prefetched, and the items are not read again.
\* client = validated_data.get('client') for an admin, request.user otherwise.
OrderTarget_IgnoreRole(u, target) == target
OrderTarget_DefaultSelf(u, target) == IF is_user_admin(u) /\ target # NoUser THEN target ELSE u
OrderTarget(u, target) == IF is_user_admin(u) THEN target ELSE u

\* raise serializers.ValidationError({"cart": "No cart found for this user."})
NoCartError_NotFound == [code |-> 404, detail |-> "No cart found for this user."]
NoCartError == [code |-> 400, detail |-> "No cart found for this user."]

\* not cart_items.exists(), answered from the prefetched items
NoItems_Never(snap) == FALSE
NoItems(snap) == snap = {}

\* item.service.price * item.quantity
LinePrice_NoQuantity(it) == it.price
LinePrice(it) == it.price * it.quantity

OrderViewSet_create(p, u, target, withStatus) ==
    /\ pc[p] = "idle"
    /\ LET client == OrderTarget(u, target)
           l == [Begin("checkout", u) EXCEPT !.client = client]
           cart == CartOf(client)
       IN IF is_user_admin(u) /\ ~withStatus
          THEN Finish(p, l, 400, "status required", 0)
          ELSE IF client = NoUser
          THEN Finish(p, l, 400, "Client is required for admin orders.", 0)
          ELSE IF cart = {}
          THEN Finish(p, l, NoCartError.code, NoCartError.detail, 0)
          ELSE LET c == CHOOSE c \in cart : TRUE
                   snap == {[id |-> i.id, service |-> i.service, quantity |-> i.quantity,
                             price |-> PriceOf(i.service)] : i \in ItemsOf(c.id)}
               IN IF NoItems(snap)
                  THEN Finish(p, [l EXCEPT !.cart = c.id], 400,
                              "No items in cart to place an order.", 0)
                  ELSE Goto(p, "co_order", [l EXCEPT !.cart = c.id, !.snap = snap])
    /\ UNCHANGED <<db, hist>>

\* Order.objects.create(client=client)
Checkout_order(p) ==
    /\ pc[p] = "co_order"
    /\ LET l == loc[p]
       IN /\ orders' = orders \cup {[id |-> nextId.order, client |-> l.client,
                                     status |-> "PENDING", total_price |-> 0]}
          /\ nextId' = [nextId EXCEPT !.order = @ + 1]
          /\ Goto(p, IF l.snap = {} THEN "co_save" ELSE "co_items",
                  [l EXCEPT !.order = nextId.order, !.todo = l.snap])
    /\ UNCHANGED <<carts, cartItems, orderItems, services, hist>>

\* One pass of the loop: OrderItem.objects.create(order, service, quantity).
Checkout_item(p) ==
    /\ pc[p] = "co_items"
    /\ LET l == loc[p]
       IN \E it \in l.todo :
            IF OrderItemRowOk(l.order, it.service, it.quantity)
            THEN /\ orderItems' = orderItems \cup
                       {[id |-> nextId.oitem, order |-> l.order, service |-> it.service,
                         quantity |-> it.quantity]}
                 /\ nextId' = [nextId EXCEPT !.oitem = @ + 1]
                 /\ Goto(p, IF l.todo = {it} THEN "co_save" ELSE "co_items",
                         [l EXCEPT !.todo = @ \ {it},
                                   !.total = @ + LinePrice(it)])
            ELSE /\ Finish(p, l, 500, "IntegrityError", 0)
                 /\ UNCHANGED <<orderItems, nextId>>
    /\ UNCHANGED <<carts, cartItems, orders, services, hist>>

\* order.total_price = total_price; order.save()
Checkout_save(p) ==
    /\ pc[p] = "co_save"
    /\ LET l == loc[p]
       IN /\ orders' = {o \in orders : o.id # l.order} \cup
                 {[id |-> l.order, client |-> l.client, status |-> "PENDING",
                   total_price |-> l.total]}
          /\ Goto(p, "co_delete", l)
    /\ UNCHANGED <<carts, cartItems, orderItems, services, nextId, hist>>

\* cart.delete(); return order
Checkout_delete_KeepCart(p) ==
    /\ pc[p] = "co_delete"
    /\ LET l == loc[p]
       IN /\ hist' = hist \cup {[order |-> l.order, cart |-> l.cart]}
          /\ Finish(p, l, 201, "created", l.order)
    /\ UNCHANGED <<carts, cartItems, orders, orderItems, services, nextId>>

Checkout_delete(p) ==
    /\ pc[p] = "co_delete"
    /\ LET l == loc[p]
       IN /\ carts' = carts \ CartById(l.cart)
          /\ cartItems' = CascadeCart(l.cart)
          /\ hist' = hist \cup {[order |-> l.order, cart |-> l.cart]}
          /\ Finish(p, l, 201, "created", l.order)
    /\ UNCHANGED <<orders, orderItems, services, nextId>>

\* ------------------------------------------------------------------ ServiceViewSet
\* destroy, for admins only; Service rows cascade to cart items and order items.
ServiceViewSet_destroy(p, u, s) ==
    /\ pc[p] = "idle"
    /\ LET l == [Begin("service_destroy", u) EXCEPT !.svc = s]
       IN IF ~is_user_admin(u)
          THEN /\ Finish(p, l, 403, "PermissionDenied", 0)
               /\ UNCHANGED <<services, cartItems, orderItems>>
          ELSE IF ServiceById(s) = {}
          THEN /\ Finish(p, l, 404, "NotFound", 0)
               /\ UNCHANGED <<services, cartItems, orderItems>>
          ELSE /\ services' = services \ ServiceById(s)
               /\ cartItems' = {i \in cartItems : i.service # s}
               /\ orderItems' = {i \in orderItems : i.service # s}
               /\ Finish(p, l, 204, "none", 0)
    /\ UNCHANGED <<carts, orders, nextId, hist>>

\* update / partial_update of the price, for admins only.
ServiceViewSet_update(p, u, s, price) ==
    /\ pc[p] = "idle"
    /\ LET l == [Begin("service_update", u) EXCEPT !.svc = s]
       IN IF ~is_user_admin(u)
          THEN Finish(p, l, 403, "PermissionDenied", 0) /\ UNCHANGED services
          ELSE IF ServiceById(s) = {}
          THEN Finish(p, l, 404, "NotFound", 0) /\ UNCHANGED services
          ELSE /\ services' = (services \ ServiceById(s)) \cup {[id |-> s, price |-> price]}
               /\ Finish(p, l, 200, "none", 0)
    /\ UNCHANGED <<carts, cartItems, orders, orderItems, nextId, hist>>

\* ------------------------------------------------------------------ OrderViewSet
\* Order.STATUS_CHOICES
Statuses == {"PENDING", "ACCEPTED", "IN_PROGRESS", "COMPLETED", "CANCELLED"}
\* A payload without a status field.
NoStatus == "absent"
\* status = serializers.CharField(read_only=False): the serializer takes any
\* non-empty string, here the choices and one string that is not a choice.
StatusInputs == Statuses \cup {"SHIPPED"}

\* get_queryset: every order for an admin, the caller's own otherwise.
OrderQueryset_All(u) == orders
OrderQueryset_OwnOnly(u) == {o \in orders : o.client = u}
OrderQueryset(u) == IF is_user_admin(u) THEN orders ELSE {o \in orders : o.client = u}

\* list: the serialized get_queryset(), unpaginated.
OrderViewSet_list(p, u) ==
    /\ pc[p] = "idle"
    /\ FinishRows(p, Begin("order_list", u), 200, "none", 0, {o.id : o \in OrderQueryset(u)})
    /\ UNCHANGED <<db, hist>>

\* retrieve: get_object() over get_queryset(); the view has no object permission.
OrderViewSet_retrieve(p, u, oid) ==
    /\ pc[p] = "idle"
    /\ LET l == [Begin("order_retrieve", u) EXCEPT !.order = oid]
           found == {o \in OrderQueryset(u) : o.id = oid}
       IN IF found = {}
          THEN Finish(p, l, 404, "NotFound", 0)
          ELSE Finish(p, l, 200, "none", oid)
    /\ UNCHANGED <<db, hist>>

\* The status that reaches the save: the field is read-only for a non-admin,
\* and perform_update and OrderSerializer.update pop it from the validated
\* data of a non-admin once more.
ValidatedStatus_KeepField(u, st) == st
ValidatedStatus(u, st) == IF is_user_admin(u) THEN st ELSE NoStatus

\* update (partial = FALSE) and partial_update (partial = TRUE) with a payload
\* that carries the status st or no status; the instance is saved with the
\* validated status, if any.
OrderViewSet_update(p, u, oid, st, partial) ==
    /\ pc[p] = "idle"
    /\ LET l == [Begin("order_update", u) EXCEPT !.order = oid]
           found == {o \in OrderQueryset(u) : o.id = oid}
           v == ValidatedStatus(u, st)
       IN IF found = {}
          THEN Finish(p, l, 404, "NotFound", 0) /\ UNCHANGED orders
          ELSE IF is_user_admin(u) /\ ~partial /\ st = NoStatus
          THEN Finish(p, l, 400, "status required", 0) /\ UNCHANGED orders
          ELSE LET o == CHOOSE o \in found : TRUE
                   saved == IF v # NoStatus THEN [o EXCEPT !.status = v] ELSE o
               IN /\ orders' = (orders \ found) \cup {saved}
                  /\ Finish(p, l, 200, "none", oid)
    /\ UNCHANGED <<carts, cartItems, orderItems, services, nextId, hist>>

\* destroy: instance.delete(), which cascades to the order's items.
OrderViewSet_destroy(p, u, oid) ==
    /\ pc[p] = "idle"
    /\ LET l == [Begin("order_destroy", u) EXCEPT !.order = oid]
           found == {o \in OrderQueryset(u) : o.id = oid}
       IN IF found = {}
          THEN Finish(p, l, 404, "NotFound", 0) /\ UNCHANGED <<orders, orderItems>>
          ELSE /\ orders' = orders \ found
               /\ orderItems' = {i \in orderItems : i.order # oid}
               /\ Finish(p, l, 204, "none", 0)
    /\ UNCHANGED <<carts, cartItems, services, nextId, hist>>

\* ------------------------------------------------------------------ payment callback
\* A transaction id is a string, here the sequence of its characters;
\* request.data.get("tran_id") is None when the field is missing.
Digits == <<"0", "1", "2", "3", "4", "5", "6", "7", "8", "9">>
DigitValue(ch) == (CHOOSE k \in 1 .. Len(Digits) : Digits[k] = ch) - 1
IsDigit(ch) == \E k \in 1 .. Len(Digits) : Digits[k] = ch

\* str.split('_'): the pieces between the separators, empty pieces included.
RECURSIVE SplitAt(_, _, _)
SplitAt(text, sep, piece) ==
    IF text = <<>> THEN <<piece>>
    ELSE IF Head(text) = sep THEN <<piece>> \o SplitAt(Tail(text), sep, <<>>)
    ELSE SplitAt(Tail(text), sep, Append(piece, Head(text)))
Split(text, sep) == SplitAt(text, sep, <<>>)

\* The integer Order.objects.get(id=...) makes of a string of decimal digits.
RECURSIVE ToInt(_)
ToInt(piece) ==
    IF piece = <<>> THEN 0
    ELSE 10 * ToInt(SubSeq(piece, 1, Len(piece) - 1)) + DigitValue(piece[Len(piece)])
IsNumber(piece) == piece # <<>> /\ \A k \in 1 .. Len(piece) : IsDigit(piece[k])

\* initiate_payment: f"txn_{order_id}_{uuid.uuid4().hex[:6]}", with a one
\* character suffix.
TranIdFor(oid) == <<"t", "x", "n", "_", Digits[oid + 1], "_", "a">>

\* The status the callback writes.
PaidStatus(old) == "ACCEPTED"

\* payment_success: tran_id.split('_')[1], Order.objects.get(id=...),
\* status = "ACCEPTED", save, redirect.  None has no split (AttributeError), a
\* split of one piece has no [1] (IndexError), a piece that is no number is a
\* ValueError and an unknown id is Order.DoesNotExist; the view catches none.
payment_success(p, tran) ==
    /\ pc[p] = "idle"
    /\ LET l == Begin("payment_success", NoUser)
           pieces == Split(tran.text, "_")
       IN IF ~tran.present
          THEN Finish(p, l, 500, "AttributeError", 0) /\ UNCHANGED orders
          ELSE IF Len(pieces) < 2
          THEN Finish(p, l, 500, "IndexError", 0) /\ UNCHANGED orders
          ELSE IF ~IsNumber(pieces[2])
          THEN Finish(p, l, 500, "ValueError", 0) /\ UNCHANGED orders
          ELSE LET oid == ToInt(pieces[2])
                   found == OrderById(oid)
               IN IF found = {}
                  THEN Finish(p, l, 500, "DoesNotExist", 0) /\ UNCHANGED orders
                  ELSE LET o == CHOOSE o \in found : TRUE
                       IN /\ orders' = (orders \ found) \cup
                                {[o EXCEPT !.status = PaidStatus(o.status)]}
                          /\ Finish(p, [l EXCEPT !.order = oid], 302, "redirect", oid)
    /\ UNCHANGED <<carts, cartItems, orderItems, services, nextId, hist>>

\* ------------------------------------------------------------------ object permissions
\* getattr(obj, name, None) == user, over the columns the row has.
AttrIs(obj, name, u) == name \in DOMAIN obj /\ obj[name] = u

\* IsOwnerOrAdmin.has_object_permission: admin, or obj.user, or obj.client.
IsOwnerOrAdmin(u, obj) ==
    \/ is_user_admin(u)
    \/ AttrIs(obj, "user", u)
    \/ AttrIs(obj, "client", u)

\* IsCartOwnerOrAdmin.has_object_permission: admin, or obj.cart.user.
IsCartOwnerOrAdmin(u, obj) ==
    \/ is_user_admin(u)
    \/ "cart" \in DOMAIN obj /\ \E c \in CartById(obj.cart) : c.user = u

\* ------------------------------------------------------------------ OrderItemViewSet
\* get_queryset: the items of the order of the route, for a non-admin only
\* when the order is the caller's.
OrderItemQueryset(u, oid) ==
    {i \in OrderItemsOf(oid) :
        is_user_admin(u) \/ \E o \in OrderById(oid) : o.client = u}

\* retrieve: get_object() is the queryset lookup, then the object permission.
OrderItemViewSet_retrieve(p, u, oid, iid) ==
    /\ pc[p] = "idle"
    /\ LET l == [Begin("oitem_retrieve", u) EXCEPT !.order = oid, !.item = iid]
           found == {i \in OrderItemQueryset(u, oid) : i.id = iid}
       IN IF found = {}
          THEN Finish(p, l, 404, "NotFound", 0)
          ELSE IF ~IsOwnerOrAdmin(u, CHOOSE i \in found : TRUE)
          THEN Finish(p, l, 403, "PermissionDenied", 0)
          ELSE Finish(p, l, 200, "none", iid)
    /\ UNCHANGED <<db, hist>>

\* create: the order of the route, the owner test of the view, the
\* serializer's validation of service and quantity, then the INSERT.
OrderItemViewSet_create(p, u, oid, s, q) ==
    /\ pc[p] = "idle"
    /\ LET l == [Begin("oitem_create", u) EXCEPT !.order = oid, !.svc = s, !.qty = q]
           found == OrderById(oid)
       IN IF found = {}
          THEN Finish(p, l, 403, "Order not found.", 0) /\ UNCHANGED <<orderItems, nextId>>
          ELSE IF (CHOOSE o \in found : TRUE).client # u /\ ~is_user_admin(u)
          THEN /\ Finish(p, l, 403, "You cannot add items to this order.", 0)
               /\ UNCHANGED <<orderItems, nextId>>
          ELSE IF ServiceById(s) = {} \/ q < 0
          THEN Finish(p, l, 400, "ValidationError", 0) /\ UNCHANGED <<orderItems, nextId>>
          ELSE /\ orderItems' = orderItems \cup
                     {[id |-> nextId.oitem, order |-> oid, service |-> s, quantity |-> q]}
               /\ nextId' = [nextId EXCEPT !.oitem = @ + 1]
               /\ Finish(p, l, 201, "created", nextId.oitem)
    /\ UNCHANGED <<carts, cartItems, orders, services, hist>>

\* update / partial_update of the quantity.
OrderItemViewSet_update(p, u, oid, iid, q) ==
    /\ pc[p] = "idle"
    /\ LET l == [Begin("oitem_update", u) EXCEPT !.order = oid, !.item = iid, !.qty = q]
           found == {i \in OrderItemQueryset(u, oid) : i.id = iid}
       IN IF found = {}
          THEN Finish(p, l, 404, "NotFound", 0) /\ UNCHANGED orderItems
          ELSE IF ~IsOwnerOrAdmin(u, CHOOSE i \in found : TRUE)
          THEN Finish(p, l, 403, "PermissionDenied", 0) /\ UNCHANGED orderItems
          ELSE IF q < 0
          THEN Finish(p, l, 400, "ValidationError", 0) /\ UNCHANGED orderItems
          ELSE /\ orderItems' = (orderItems \ found) \cup
                     {[i EXCEPT !.quantity = q] : i \in found}
               /\ Finish(p, l, 200, "none", iid)
    /\ UNCHANGED <<carts, cartItems, orders, services, nextId, hist>>

OrderItemViewSet_destroy(p, u, oid, iid) ==
    /\ pc[p] = "idle"
    /\ LET l == [Begin("oitem_destroy", u) EXCEPT !.order = oid, !.item = iid]
           found == {i \in OrderItemQueryset(u, oid) : i.id = iid}
       IN IF found = {}
          THEN Finish(p, l, 404, "NotFound", 0) /\ UNCHANGED orderItems
          ELSE IF ~IsOwnerOrAdmin(u, CHOOSE i \in found : TRUE)
          THEN Finish(p, l, 403, "PermissionDenied", 0) /\ UNCHANGED orderItems
          ELSE /\ orderItems' = orderItems \ found
               /\ Finish(p, l, 204, "none", 0)
    /\ UNCHANGED <<carts, cartItems, orders, services, nextId, hist>>

\* ------------------------------------------------------------------ cart and cart-item access
\* CartViewSet.retrieve: the queryset lookup, then IsOwnerOrAdmin on the cart.
CartViewSet_retrieve(p, u, cid) ==
    /\ pc[p] = "idle"
    /\ LET l == [Begin("cart_retrieve", u) EXCEPT !.cart = cid]
           found == {c \in CartQueryset(u) : c.id = cid}
       IN IF found = {}
          THEN Finish(p, l, 404, "NotFound", 0)
          ELSE IF ~IsOwnerOrAdmin(u, CHOOSE c \in found : TRUE)
          THEN Finish(p, l, 403, "PermissionDenied", 0)
          ELSE Finish(p, l, 200, "none", cid)
    /\ UNCHANGED <<db, hist>>

\* CartItemViewSet.get_queryset: the items of the cart of the route, for a
\* non-admin only when the cart is the caller's.
CartItemQueryset(u, cid) ==
    {i \in ItemsOf(cid) : is_user_admin(u) \/ \E c \in CartById(cid) : c.user = u}

CartItemViewSet_retrieve(p, u, cid, iid) ==
    /\ pc[p] = "idle"
    /\ LET l == [Begin("item_retrieve", u) EXCEPT !.cart = cid, !.item = iid]
           found == {i \in CartItemQueryset(u, cid) : i.id = iid}
       IN IF found = {}
          THEN Finish(p, l, 404, "NotFound", 0)
          ELSE IF ~IsCartOwnerOrAdmin(u, CHOOSE i \in found : TRUE)
          THEN Finish(p, l, 403, "PermissionDenied", 0)
          ELSE Finish(p, l, 200, "none", iid)
    /\ UNCHANGED <<db, hist>>

\* A payload without a cart field.
NoCart == 0

\* CartItemSerializer.__init__: the carts the payload's cart field may name,
\* every cart for an admin and the caller's own otherwise.
CartFieldQueryset_All(u) == {c.id : c \in carts}
CartFieldQueryset(u) ==
    IF is_user_admin(u) THEN {c.id : c \in carts} ELSE {c.id : c \in CartOf(u)}

\* update / partial_update with the quantity q and the cart field to (or no
\* cart field); the serializer validates quantity >= 0, the cart against the
\* field's queryset and the pair (cart, service) against unique_together,
\* then saves the line.
CartItemViewSet_update(p, u, cid, iid, q, to) ==
    /\ pc[p] = "idle"
    /\ LET l == [Begin("item_update", u) EXCEPT !.cart = cid, !.item = iid, !.qty = q]
           found == {i \in CartItemQueryset(u, cid) : i.id = iid}
       IN IF found = {}
          THEN Finish(p, l, 404, "NotFound", 0) /\ UNCHANGED cartItems
          ELSE IF ~IsCartOwnerOrAdmin(u, CHOOSE i \in found : TRUE)
          THEN Finish(p, l, 403, "PermissionDenied", 0) /\ UNCHANGED cartItems
          ELSE IF q < 0
          THEN Finish(p, l, 400, "ValidationError", 0) /\ UNCHANGED cartItems
          ELSE IF to # NoCart /\ to \notin CartFieldQueryset(u)
          THEN Finish(p, l, 400, "Invalid pk", 0) /\ UNCHANGED cartItems
          ELSE LET i == CHOOSE i \in found : TRUE
                   cart == IF to = NoCart THEN i.cart ELSE to
               IN IF \E j \in ItemFor(cart, i.service) : j.id # i.id
                  THEN Finish(p, l, 400, "The fields cart, service must make a unique set.", 0)
                       /\ UNCHANGED cartItems
                  ELSE /\ cartItems' = (cartItems \ found) \cup
                             {[i EXCEPT !.quantity = q, !.cart = cart]}
                       /\ Finish(p, l, 200, "none", iid)
    /\ UNCHANGED <<carts, orders, orderItems, services, nextId, hist>>

CartItemViewSet_destroy(p, u, cid, iid) ==
    /\ pc[p] = "idle"
    /\ LET l == [Begin("item_destroy", u) EXCEPT !.cart = cid, !.item = iid]
           found == {i \in CartItemQueryset(u, cid) : i.id = iid}
       IN IF found = {}
          THEN Finish(p, l, 404, "NotFound", 0) /\ UNCHANGED cartItems
          ELSE IF ~IsCartOwnerOrAdmin(u, CHOOSE i \in found : TRUE)
          THEN Finish(p, l, 403, "PermissionDenied", 0) /\ UNCHANGED cartItems
          ELSE /\ cartItems' = cartItems \ found
               /\ Finish(p, l, 204, "none", 0)
    /\ UNCHANGED <<carts, orders, orderItems, services, nextId, hist>>

\* ------------------------------------------------------------------ role resolver calls
\* The call sites that ask whether the principal of the request is an admin.
RoleSites == {"is_user_admin", "IsAdminUser", "IsOwnerOrAdmin", "IsCartOwnerOrAdmin"}

\* CacheUserAdminMixin.initial: the membership is looked up and stored on
\* request.user unless the attribute is there.
Cached(l) ==
    IF l.hasCache THEN l
    ELSE [l EXCEPT !.hasCache = TRUE, !.cache = InAdminGroup(l.user), !.lookups = @ + 1]

\* is_user_admin, IsAdminUser.has_permission and the two has_object_permission
\* methods: the stored attribute when there is one, a lookup that is stored
\* otherwise.
Resolved_NoCache(l) ==
    [l EXCEPT !.cache = InAdminGroup(l.user), !.lookups = @ + 1,
              !.answer = InAdminGroup(l.user)]
Resolved(l) ==
    IF l.hasCache THEN [l EXCEPT !.answer = l.cache]
    ELSE [l EXCEPT !.hasCache = TRUE, !.cache = InAdminGroup(l.user), !.lookups = @ + 1,
                   !.answer = InAdminGroup(l.user)]

\* A request of u enters a view: request.user is a new object, and a view with
\* CacheUserAdminMixin fills its cache in initial().
APIView_initial(p, u, mixin) ==
    /\ pc[p] = "idle"
    /\ Goto(p, "role", IF mixin THEN Cached(Begin("role", u)) ELSE Begin("role", u))
    /\ UNCHANGED <<db, hist>>

\* One call of the role resolver made by the request.
RoleCall(p, site) ==
    /\ pc[p] = "role"
    /\ loc[p].calls < MaxCalls
    /\ Goto(p, "role", [Resolved(loc[p]) EXCEPT !.calls = @ + 1, !.site = site])
    /\ UNCHANGED <<db, hist>>

\* The request ends; request.user is dropped with it.
APIView_finalize(p) ==
    /\ pc[p] = "role"
    /\ Finish(p, loc[p], 200, "none", 0)
    /\ UNCHANGED <<db, hist>>

\* ------------------------------------------------------------------ UserViewSet
\* The names accounts/views.py binds from common.permissions.
AccountsImports == {"IsAdminUser", "IsOwnerOrAdmin"}

UserByName(t) == {r \in users : r.username = t}
IsStaff(u) == \E r \in users : r.username = u /\ r.is_staff

\* update / partial_update with a groups field: permission IsAdminUser, then
\* UserSerializer.update, which sets the groups for a staff caller.
UserViewSet_update(p, u, t, admin) ==
    /\ pc[p] = "idle"
    /\ LET l == [Begin("user_update", u) EXCEPT !.client = t]
       IN IF ~InAdminGroup(u)
          THEN Respond(p, l, 403, "PermissionDenied", 0, {}) /\ UNCHANGED users
          ELSE IF UserByName(t) = {}
          THEN Respond(p, l, 404, "NotFound", 0, {}) /\ UNCHANGED users
          ELSE IF ~IsStaff(u)
          THEN Respond(p, l, 400, "You do not have permission to change user groups.", 0, {})
               /\ UNCHANGED users
          ELSE /\ users' = {IF r.username = t THEN [r EXCEPT !.admin = admin] ELSE r : r \in users}
               /\ Respond(p, l, 200, "none", 0, {})
    /\ UNCHANGED <<db, hist>>

\* destroy: permission IsAdminUser, get_object(), then the test
\* is_user_admin(request), a name the module does not bind; behind it
\* perform_destroy, whose delete cascades to the user's carts and orders.
UserViewSet_destroy(p, u, t) ==
    /\ pc[p] = "idle"
    /\ LET l == [Begin("user_destroy", u) EXCEPT !.client = t]
           gone == {c.id : c \in CartOf(t)}
           sold == {o.id : o \in {o \in orders : o.client = t}}
       IN IF ~InAdminGroup(u)
          THEN Respond(p, l, 403, "PermissionDenied", 0, {}) /\ UNCHANGED <<users, db>>
          ELSE IF UserByName(t) = {}
          THEN Respond(p, l, 404, "NotFound", 0, {}) /\ UNCHANGED <<users, db>>
          ELSE IF "is_user_admin" \notin AccountsImports
          THEN Respond(p, l, 500, "NameError", 0, {}) /\ UNCHANGED <<users, db>>
          ELSE /\ users' = users \ UserByName(t)
               /\ carts' = carts \ CartOf(t)
               /\ cartItems' = {i \in cartItems : i.cart \notin gone}
               /\ orders' = {o \in orders : o.client # t}
               /\ orderItems' = {i \in orderItems : i.order \notin sold}
               /\ Respond(p, l, 204, "User deleted successfully.", 0, {})
               /\ UNCHANGED <<services, nextId>>
    /\ UNCHANGED hist

\* ------------------------------------------------------------------ specification
\* Cart ids a request names: every id handed out so far and one never used.
CartIds == 1 .. nextId.cart

\* A worker takes a request.
CartRequest(p) ==
    \/ \E u \in Users : CartViewSet_list(p, u)
    \/ \E u \in Users : CartViewSet_create(p, u)
    \/ \E u \in Users, t \in Users : CartViewSet_create_admin(p, u, t)
    \/ \E u \in Users, t \in Users, c \in CartIds : CartViewSet_update(p, u, c, t)
    \/ \E u \in Users, c \in CartIds : CartViewSet_destroy(p, u, c)
    \/ \E u \in Users, c \in CartIds, s \in ServiceIds \cup {NoService}, q \in Quantities :
          CartItemViewSet_create(p, u, c, s, q)
    \/ \E u \in Users, t \in Users \cup {NoUser}, st \in BOOLEAN :
          OrderViewSet_create(p, u, t, st)

\* A worker runs the next statement of its request.
Statement(p) ==
    \/ GetOrCreate_create(p)
    \/ CartItem_insert(p)
    \/ CartItem_save(p)
    \/ Checkout_order(p)
    \/ Checkout_item(p)
    \/ Checkout_save(p)
    \/ Checkout_delete(p)

\* Requests taken so far.
Taken == rsp.n + Cardinality({p \in Procs : pc[p] # "idle"})

\* Requests served one at a time by a single worker.
NextSeq ==
    \/ /\ Taken < MaxRequests
       /\ \/ CartRequest("w1")
          \/ \E u \in Users, s \in ServiceIds, pr \in 1..MaxPrice :
                ServiceViewSet_update("w1", u, s, pr)
    \/ Statement("w1")
    \/ CartItem_reget("w1")

\* With one worker the second get of Cart.objects.get_or_create is never reached.
SpecSeq == Init /\ [][NextSeq]_vars

\* Two workers whose requests interleave between statements.
Next ==
    \E p \in Procs :
        \/ /\ Taken < MaxConcurrent
           /\ \/ CartRequest(p)
              \/ \E u \in Users, s \in ServiceIds : ServiceViewSet_destroy(p, u, s)
        \/ Statement(p)
        \/ CartItem_reget(p)
        \/ GetOrCreate_reget(p)

Spec == Init /\ [][Next]_vars

\* ------------------------------------------------------------------ order lifecycle
\* Ids a request names: every id handed out so far and one never used.
ItemIds == 1 .. nextId.item
OrderIds == 1 .. nextId.order
OrderItemIds == 1 .. nextId.oitem

\* The transaction ids the callback is called with: none, one without a
\* separator, one whose second piece is no number, and the well-formed id of
\* every order id.
TranIds ==
    {[present |-> FALSE, text |-> <<>>],
     [present |-> TRUE, text |-> <<"t", "x", "n">>],
     [present |-> TRUE, text |-> <<"t", "x", "n", "_", "x", "_", "a">>]}
    \cup {[present |-> TRUE, text |-> TranIdFor(o)] : o \in OrderIds}

\* The requests that lead to an order: cart, lines, checkout.
OrderSetup(p) ==
    \/ \E u \in Users : CartViewSet_list(p, u)
    \/ \E u \in Users, c \in CartIds, s \in ServiceIds, q \in 1 .. MaxAdd :
          CartItemViewSet_create(p, u, c, s, q)
    \/ \E u \in Users, t \in Users \cup {NoUser}, st \in BOOLEAN :
          OrderViewSet_create(p, u, t, st)

\* The requests on orders and their items, and the payment callback.
OrderRequest(p) ==
    \/ \E u \in Users : OrderViewSet_list(p, u)
    \/ \E u \in Users, o \in OrderIds : OrderViewSet_retrieve(p, u, o)
    \/ \E u \in Users, o \in OrderIds, st \in StatusInputs \cup {NoStatus}, pt \in BOOLEAN :
          OrderViewSet_update(p, u, o, st, pt)
    \/ \E u \in Users, o \in OrderIds : OrderViewSet_destroy(p, u, o)
    \/ \E t \in TranIds : payment_success(p, t)
    \/ \E u \in Users, o \in OrderIds, i \in OrderItemIds : OrderItemViewSet_retrieve(p, u, o, i)
    \/ \E u \in Users, o \in OrderIds, s \in ServiceIds, q \in 1 .. MaxAdd :
          OrderItemViewSet_create(p, u, o, s, q)
    \/ \E u \in Users, o \in OrderIds, i \in OrderItemIds, q \in 1 .. MaxAdd :
          OrderItemViewSet_update(p, u, o, i, q)
    \/ \E u \in Users, o \in OrderIds, i \in OrderItemIds : OrderItemViewSet_destroy(p, u, o, i)
    \/ \E u \in Users, s \in ServiceIds, pr \in 1 .. MaxPrice : ServiceViewSet_update(p, u, s, pr)

\* The requests on one cart or one cart item.
AccessRequest(p) ==
    \/ \E u \in Users, c \in CartIds : CartViewSet_retrieve(p, u, c)
    \/ \E u \in Users, c \in CartIds, t \in Users : CartViewSet_update(p, u, c, t)
    \/ \E u \in Users, c \in CartIds : CartViewSet_destroy(p, u, c)
    \/ \E u \in Users, c \in CartIds, i \in ItemIds : CartItemViewSet_retrieve(p, u, c, i)
    \/ \E u \in Users, c \in CartIds, i \in ItemIds, q \in 1 .. MaxAdd,
          to \in CartIds \cup {NoCart} :
          CartItemViewSet_update(p, u, c, i, q, to)
    \/ \E u \in Users, c \in CartIds, i \in ItemIds : CartItemViewSet_destroy(p, u, c, i)

\* Requests on carts, orders and their items served one at a time.  The lines
\* added here have an existing service and a positive quantity, so the INSERT
\* of get_or_create never fails and its second get is never reached.
NextOrders ==
    \/ /\ Taken < MaxOrderRequests
       /\ \/ OrderSetup("w1")
          \/ OrderRequest("w1")
          \/ AccessRequest("w1")
    \/ Statement("w1")

SpecOrders == Init /\ [][NextOrders]_vars

\* ------------------------------------------------------------------ roles and accounts
\* Two workers: requests that call the role resolver, and the requests on
\* users that change the membership of the Admin group or delete a user.
NextRoles ==
    \E p \in Procs :
        \/ /\ Taken < MaxRoleRequests
           /\ \/ \E u \in Users, mixin \in BOOLEAN : APIView_initial(p, u, mixin)
              \/ \E u \in Users, t \in Users, admin \in BOOLEAN : UserViewSet_update(p, u, t, admin)
              \/ \E u \in Users, t \in Users : UserViewSet_destroy(p, u, t)
        \/ \E site \in RoleSites : RoleCall(p, site)
        \/ APIView_finalize(p)

SpecRoles == Init /\ [][NextRoles]_vars

\* ------------------------------------------------------------------ properties
\* A step that sends a response (rsp' is then that response).
Responded == rsp'.n = rsp.n + 1
CheckoutLabels == {"co_order", "co_items", "co_save", "co_delete"}
\* The client a checkout by u with payload client t is for, per the specification.
ClientFor(u, t) == IF u \in AdminGroup THEN t ELSE u
\* A payload the serializer accepts: an admin's carries a status.
ValidPayload(u, st) == u \in AdminGroup => st
Targets == Users \cup {NoUser}
\* A step in which worker p takes a checkout request.
TakesCheckout(p) ==
    /\ pc[p] = "idle"
    /\ \/ pc'[p] = "co_order"
       \/ Responded /\ rsp'.op = "checkout"
\* The sum of price x quantity over a set of lines of distinct services.
RECURSIVE SumLines(_)
SumLines(S) ==
    IF S = {} THEN 0
    ELSE LET x == CHOOSE y \in S : TRUE
         IN x.price * x.quantity + SumLines(S \ {x})
LineViews(items) == {[service |-> i.service, quantity |-> i.quantity] : i \in items}

\* C1: a checkout that fails after it has started leaves no Order and no
\* OrderLine of that checkout, and leaves its source Cart in place.
C1_CheckoutAllOrNothing ==
    [][\A p \in Procs :
        (pc[p] \in CheckoutLabels /\ pc'[p] = "idle" /\ rsp'.code # 201)
        => /\ {o \in orders' : o.id = loc[p].order} = {}
           /\ {i \in orderItems' : i.order = loc[p].order} = {}
           /\ {c \in carts' : c.id = loc[p].cart} # {}]_vars

\* C2: a successful checkout for client C leaves exactly one new Order, owned
\* by C and PENDING, with one OrderLine per line of C's cart (same service and
\* quantity) and no other, total_price the sum of price x quantity over those
\* lines, and C's cart and its lines gone.
C2_CheckoutResult ==
    [][\A p \in Procs :
        (pc[p] = "co_delete" /\ pc'[p] = "idle")
        => LET l == loc[p]
               lines == ItemsOf(l.cart)
               made == {i \in orderItems' : i.order = l.order}
           IN /\ rsp'.code = 201 /\ rsp'.ret = l.order
              /\ CartOf(l.client) = CartById(l.cart)
              /\ lines # {}
              /\ Cardinality({o \in orders' : o.id = l.order}) = 1
              /\ nextId'.order = l.order + 1
              /\ \A o \in orders' : o.id = l.order =>
                    /\ o.client = l.client
                    /\ o.status = "PENDING"
                    /\ o.total_price =
                          SumLines({[service |-> i.service, quantity |-> i.quantity,
                                     price |-> PriceOf(i.service)] : i \in lines})
              /\ Cardinality(made) = Cardinality(lines)
              /\ LineViews(made) = LineViews(lines)
              /\ {c \in carts' : c.id = l.cart \/ c.user = l.client} = {}
              /\ {i \in cartItems' : i.cart = l.cart} = {}]_vars

\* C2 witness: the checkout of a cart with two lines, one of quantity 2, has
\* returned 201 and the cart is gone.
C2_Witness ==
    /\ rsp.op = "checkout" /\ rsp.code = 201
    /\ \E o \in orders :
          /\ o.id = rsp.ret
          /\ Cardinality(OrderItemsOf(o.id)) = 2
          /\ \E i \in OrderItemsOf(o.id) : i.quantity = 2
          /\ o.total_price = 4
          /\ CartOf(o.client) = {}

\* C3: at most one Order is ever created from any one Cart, whatever the
\* interleaving of two checkouts of the same client.
C3_OneOrderPerCart ==
    \A a, b \in hist : a.cart = b.cart => a.order = b.order

\* C4: in every reachable state there is at most one Cart per principal.
C4_OneCartPerPrincipal ==
    \A u \in Users : Cardinality(CartOf(u)) <= 1

\* C4 witness: a worker lost the creation race for a principal who had no cart
\* when its get_or_create began, and the winner's cart is in place.
C4_Witness ==
    \E p \in Procs : pc[p] = "goc_reget" /\ CartOf(loc[p].user) # {}

\* C5: every get-or-create of a non-admin P answers with P's cart; it reports
\* created only if P had no cart; and the second of two successive
\* get-or-creates of P returns the same Cart id and creates nothing.
IsGetOrCreate(r) == r.op \in {"cart_list", "cart_create"} /\ r.user \in Users \ AdminGroup
C5_GetOrCreateIdempotent ==
    [][(Responded /\ IsGetOrCreate(rsp'))
        => /\ rsp'.code \in {200, 201}
           /\ \E c \in carts' : c.id = rsp'.ret /\ c.user = rsp'.user
           /\ (rsp'.detail = "created") = (CartOf(rsp'.user) = {})
           /\ (rsp'.detail = "created") = (carts' # carts)
           /\ (rsp'.code = 201) = (rsp'.detail = "created" /\ rsp'.op = "cart_create")
           /\ (IsGetOrCreate(rsp) /\ rsp.user = rsp'.user)
                 => (rsp'.ret = rsp.ret /\ rsp'.detail # "created" /\ carts' = carts)]_vars

\* C5 witness: the second request of the run is a cart create that found the
\* cart the first request, a cart create of the same principal, had created.
C5_Witness ==
    /\ rsp.n = 2 /\ rsp.twice
    /\ rsp.op = "cart_create" /\ rsp.user \in Users \ AdminGroup
    /\ rsp.code = 200 /\ rsp.detail = "none"
    /\ rsp.ret = 1 /\ nextId.cart = 2
    /\ carts = {[id |-> 1, user |-> rsp.user]}

\* C6: an addLine of a positive quantity q for service S leaves exactly one
\* line for S in the cart, of quantity q more than before (q when there was
\* none), so two adds of q1 and q2 give q1 + q2; and no state holds two lines
\* for one (Cart, Service).
C6_UniqueLine ==
    \A i, j \in cartItems : (i.cart = j.cart /\ i.service = j.service) => i = j
C6_MergeStep ==
    \A p \in Procs :
        (pc[p] \in {"item_insert", "item_save"} /\ pc'[p] = "idle"
            /\ rsp'.code = 201 /\ loc[p].qty >= 1)
        => LET l == loc[p]
               old == ItemFor(l.cart, l.svc)
               new == {i \in cartItems' : i.cart = l.cart /\ i.service = l.svc}
           IN /\ Cardinality(new) = 1
              /\ \A i \in new :
                    i.quantity = l.qty + (IF old = {} THEN 0
                                          ELSE (CHOOSE o \in old : TRUE).quantity)
              /\ cartItems' \ new = cartItems \ old
C6_LineMerge == []C6_UniqueLine /\ [][C6_MergeStep]_vars

\* C6 witness: an add has merged into an existing line, whose quantity is now
\* more than one request can ask for.
C6_Witness ==
    /\ rsp.op = "item_create" /\ rsp.code = 201 /\ rsp.detail = "none"
    /\ \E i \in cartItems : i.id = rsp.ret /\ i.quantity > MaxAdd

\* C7: checkout on a Cart that exists and has no line fails with a
\* ValidationError, creates no Order and no OrderLine, and leaves the Cart.
C7_EmptyCartRejected ==
    [][\A p \in Procs, u \in Users, t \in Targets, st \in BOOLEAN :
        (/\ TakesCheckout(p)
         /\ OrderViewSet_create(p, u, t, st)
         /\ ValidPayload(u, st)
         /\ CartOf(ClientFor(u, t)) # {}
         /\ \A c \in CartOf(ClientFor(u, t)) : ItemsOf(c.id) = {})
        => /\ Responded
           /\ rsp'.op = "checkout" /\ rsp'.code = 400
           /\ rsp'.detail = "No items in cart to place an order."
           /\ orders' = orders /\ orderItems' = orderItems
           /\ carts' = carts /\ cartItems' = cartItems]_vars

\* C7 witness: a client's checkout was refused for an empty cart, which is
\* still there, and no order exists.
C7_Witness ==
    /\ rsp.op = "checkout" /\ rsp.code = 400
    /\ rsp.detail = "No items in cart to place an order."
    /\ CartOf(rsp.user) # {}
    /\ \A c \in CartOf(rsp.user) : ItemsOf(c.id) = {}
    /\ orders = {} /\ orderItems = {}

\* C8: an administrator's checkout without a target client fails with a
\* ValidationError and changes no Order, OrderLine, Cart or CartLine.
C8_AdminNeedsClient ==
    [][\A p \in Procs, u \in AdminGroup, st \in BOOLEAN :
        (TakesCheckout(p) /\ OrderViewSet_create(p, u, NoUser, st))
        => /\ Responded
           /\ rsp'.op = "checkout" /\ rsp'.code = 400
           /\ orders' = orders /\ orderItems' = orderItems
           /\ carts' = carts /\ cartItems' = cartItems]_vars

\* C8 witness: an administrator who has a cart with a line was refused a
\* checkout for want of a client; the cart and its line are untouched.
C8_Witness ==
    /\ rsp.op = "checkout" /\ rsp.user \in AdminGroup /\ rsp.code = 400
    /\ rsp.detail = "Client is required for admin orders."
    /\ \E c \in CartOf(rsp.user) : ItemsOf(c.id) # {}
    /\ orders = {}

C10_OwnCartOnly ==
    [][\A p \in Procs :
        /\ \A u \in Users \ AdminGroup, t \in Targets, st \in BOOLEAN :
              (TakesCheckout(p) /\ OrderViewSet_create(p, u, t, st) /\ pc'[p] # "idle")
              => /\ loc'[p].user = u /\ loc'[p].client = u
                 /\ \E c \in CartOf(u) :
                       /\ loc'[p].cart = c.id
                       /\ LineViews(loc'[p].snap) = LineViews(ItemsOf(c.id))
        /\ (pc[p] \in CheckoutLabels /\ loc[p].user \notin AdminGroup)
              => /\ \A o \in orders' \ orders : o.client = loc[p].user
                 /\ \A c \in carts \ carts' : c.user = loc[p].user
                 /\ \A i \in cartItems \ cartItems' :
                       \E c \in CartOf(loc[p].user) : i.cart = c.id
                 /\ LineViews({i \in orderItems' \ orderItems : TRUE})
                       \subseteq LineViews(loc[p].snap)]_vars

\* C10 witness: a client's checkout has returned 201 with an Order of that
\* client while another principal's cart and its line are still in place.
C10_Witness ==
    /\ rsp.op = "checkout" /\ rsp.code = 201 /\ rsp.user \notin AdminGroup
    /\ \E o \in orders : o.id = rsp.ret /\ o.client = rsp.user
    /\ \E c \in carts : c.user # rsp.user /\ ItemsOf(c.id) # {}

\* A step in which worker p takes and answers a request of the view op.
Answers(p, op) == pc[p] = "idle" /\ Responded /\ rsp'.op = op

\* C11: an update of an Order by its non-admin owner with a status in the
\* payload succeeds and leaves the Order as it was; the same payload from an
\* administrator succeeds and sets the status to the given value.
C11_StatusStripping ==
    [][\A p \in Procs :
        Answers(p, "order_update") =>
          \A u \in Users, o \in orders, st \in Statuses, pt \in BOOLEAN :
            OrderViewSet_update(p, u, o.id, st, pt) =>
              /\ (u \notin AdminGroup /\ o.client = u)
                    => rsp'.code = 200 /\ orders' = orders
              /\ u \in AdminGroup
                    => /\ rsp'.code = 200
                       /\ orders' = (orders \ {o}) \cup {[o EXCEPT !.status = st]}]_vars

\* C11 witness: the owner's update has been answered 200 on an Order whose
\* status an administrator's update had set to COMPLETED before.
C11_Witness ==
    /\ rsp.op = "order_update" /\ rsp.code = 200 /\ rsp.user \notin AdminGroup
    /\ \E o \in orders : o.id = rsp.ret /\ o.client = rsp.user /\ o.status = "COMPLETED"

\* C12: the status of an Order changes only in an administrator's update or
\* in the payment-success callback, and the callback only takes a PENDING
\* Order to ACCEPTED.
C12_StatusTransitions ==
    [][\A o \in orders, o2 \in orders' :
        (o.id = o2.id /\ o.status # o2.status)
        => /\ Responded
           /\ \/ rsp'.op = "order_update" /\ rsp'.user \in AdminGroup
              \/ /\ rsp'.op = "payment_success"
                 /\ o.status = "PENDING"
                 /\ o2.status = "ACCEPTED"]_vars

\* canAccess of the specification: the owner and every administrator.
CanAccess(u, owner) == u \in AdminGroup \/ u = owner
Granted == rsp'.code \in {200, 204}
Denied == rsp'.code \in {403, 404} /\ UNCHANGED db
GuardOutcome(u, owner) == IF CanAccess(u, owner) THEN Granted ELSE Denied
AccessOps ==
    {"order_retrieve", "order_update", "order_destroy",
     "cart_retrieve", "cart_update", "cart_destroy",
     "item_retrieve", "item_update", "item_destroy"}

\* C13: retrieve, update and delete of an existing Order, Cart or CartLine are
\* granted to its owner and to every administrator and denied, with no change
\* of any table, to every other principal.
C13_OwnershipMatrix ==
    [][\A p \in Procs :
        (pc[p] = "idle" /\ Responded /\ rsp'.op \in AccessOps) =>
          LET u == rsp'.user
              op == rsp'.op
          IN /\ \A o \in orders :
                  /\ (op = "order_retrieve" /\ OrderViewSet_retrieve(p, u, o.id))
                        => GuardOutcome(u, o.client)
                  /\ \A st \in Statuses :
                       (op = "order_update" /\ OrderViewSet_update(p, u, o.id, st, TRUE))
                          => GuardOutcome(u, o.client)
                  /\ (op = "order_destroy" /\ OrderViewSet_destroy(p, u, o.id))
                        => GuardOutcome(u, o.client)
             /\ \A c \in carts :
                  /\ (op = "cart_retrieve" /\ CartViewSet_retrieve(p, u, c.id))
                        => GuardOutcome(u, c.user)
                  /\ (op = "cart_update" /\ CartViewSet_update(p, u, c.id, c.user))
                        => GuardOutcome(u, c.user)
                  /\ (op = "cart_destroy" /\ CartViewSet_destroy(p, u, c.id))
                        => GuardOutcome(u, c.user)
                  /\ \A i \in ItemsOf(c.id) :
                       /\ (op = "item_retrieve" /\ CartItemViewSet_retrieve(p, u, c.id, i.id))
                             => GuardOutcome(u, c.user)
                       /\ \A q \in 1 .. MaxAdd :
                            (op = "item_update"
                               /\ CartItemViewSet_update(p, u, c.id, i.id, q, NoCart))
                               => GuardOutcome(u, c.user)
                       /\ (op = "item_destroy" /\ CartItemViewSet_destroy(p, u, c.id, i.id))
                             => GuardOutcome(u, c.user)]_vars

\* C13 witness: a client without a cart and without an order has been denied
\* on an order while another principal's order and cart line exist.
C13_Witness ==
    /\ rsp.op = "order_retrieve" /\ rsp.code = 404 /\ rsp.user \notin AdminGroup
    /\ orders # {} /\ \A o \in orders : o.client # rsp.user
    /\ nextId.order = 2

\* C14: on an OrderLine the guard resolves to the owner of the parent Order:
\* the parent's client is granted retrieve, update and delete of the line and
\* every other non-admin is denied.
C14_OrderLineOwner ==
    [][\A p \in Procs :
        (pc[p] = "idle" /\ Responded
           /\ rsp'.op \in {"oitem_retrieve", "oitem_update", "oitem_destroy"}) =>
          \A u \in Users \ AdminGroup, o \in orders : \A i \in OrderItemsOf(o.id) :
            /\ OrderItemViewSet_retrieve(p, u, o.id, i.id) => GuardOutcome(u, o.client)
            /\ \A q \in 1 .. MaxAdd :
                 OrderItemViewSet_update(p, u, o.id, i.id, q) => GuardOutcome(u, o.client)
            /\ OrderItemViewSet_destroy(p, u, o.id, i.id) => GuardOutcome(u, o.client)]_vars

\* The total of an order recomputed from its lines at the current prices.
Recomputed(o) ==
    SumLines({[service |-> i.service, price |-> PriceOf(i.service), quantity |-> i.quantity] :
                 i \in OrderItemsOf(o.id)})

\* C15: a change of a Service's price changes neither the stored total_price
\* of an Order nor the total recomputed from its OrderLines.
C15_PriceSnapshot ==
    [][\A p \in Procs :
        Answers(p, "service_update") =>
          \A o \in orders : o \in orders' /\ Recomputed(o)' = Recomputed(o)]_vars

\* C16: no order-item create, update or delete of a non-admin adds, changes
\* or removes an OrderLine.
C16_OrderLinesFrozen ==
    [][(Responded /\ rsp'.op \in {"oitem_create", "oitem_update", "oitem_destroy"}
          /\ rsp'.user \notin AdminGroup)
        => orderItems' = orderItems]_vars

\* A step in which worker p takes a cart-item create request.
TakesItemCreate(p) ==
    /\ pc[p] = "idle"
    /\ \/ pc'[p] \in {"item_insert", "item_save"}
       \/ Responded /\ rsp'.op = "item_create"

\* C17: addLine accepts only positive quantities, so every CartLine of every
\* reachable state has quantity >= 1.
C17_PositiveQuantities == \A i \in cartItems : i.quantity >= 1

\* C18: addLine by a principal who neither owns the target cart nor is an
\* administrator is answered 403 in the step that takes the request, and no
\* table changes.
C18_ForeignCartForbidden ==
    [][\A p \in Procs :
        TakesItemCreate(p) =>
          \A u \in Users \ AdminGroup, c \in CartIds :
            (\E x \in CartById(c) : x.user # u) =>
              \A s \in ServiceIds \cup {NoService}, q \in Quantities :
                CartItemViewSet_create(p, u, c, s, q)
                => /\ Responded /\ rsp'.code = 403
                   /\ pc'[p] = "idle"
                   /\ UNCHANGED db]_vars

\* C18 witness: a client's addLine on another principal's cart, which holds a
\* line, has been answered 403.
C18_Witness ==
    /\ rsp.op = "item_create" /\ rsp.code = 403 /\ rsp.user \notin AdminGroup
    /\ \E c \in carts : c.user # rsp.user /\ ItemsOf(c.id) # {}

\* C19: an addLine whose service id names no Service ends in a NotFound
\* response, not in an unhandled failure, and creates no CartLine.
C19_MissingServiceNotFound ==
    [][\A p \in Procs :
        (/\ pc[p] \in {"item_insert", "item_reget", "item_save"}
         /\ pc'[p] = "idle"
         /\ ServiceById(loc[p].svc) = {})
        => /\ rsp'.code = 404
           /\ cartItems' = cartItems]_vars

\* The transaction id names an existing Order in the shape txn_<id>_<suffix>.
WellFormedTran(t) == t.present /\ \E o \in orders : t.text = TranIdFor(o.id)

\* C20: a payment-success callback whose transaction id is missing, has not
\* the shape txn_<orderId>_<suffix> or names no Order is answered with a client
\* error, not with an unhandled exception, and changes no Order.
C20_DefensiveCallback ==
    [][\A p \in Procs :
        Answers(p, "payment_success") =>
          \A t \in TranIds :
            (~WellFormedTran(t) /\ payment_success(p, t))
            => rsp'.code \in 400 .. 499 /\ orders' = orders]_vars

\* C21: the get-or-create that follows a successful checkout for client C
\* creates a Cart for C that is not the checked-out one and has no lines.
C21_FreshCartAfterCheckout ==
    [][(/\ rsp.op = "checkout" /\ rsp.code = 201
        /\ Responded /\ IsGetOrCreate(rsp')
        /\ \E o \in orders : o.id = rsp.ret /\ o.client = rsp'.user)
       => /\ rsp'.detail = "created"
          /\ rsp'.ret \notin {h.cart : h \in hist}
          /\ CartById(rsp'.ret) = {}
          /\ \E c \in carts' : c.id = rsp'.ret /\ c.user = rsp'.user
          /\ {i \in cartItems' : i.cart = rsp'.ret} = {}]_vars

\* C21 witness: after a checkout that took a cart with lines, the client's
\* get-or-create has answered with a created cart.
C21_Witness ==
    /\ IsGetOrCreate(rsp) /\ rsp.detail = "created"
    /\ \E h \in hist : \E o \in orders :
          o.id = h.order /\ o.client = rsp.user /\ h.cart # rsp.ret
             /\ OrderItemsOf(o.id) # {}
    /\ ItemsOf(rsp.ret) = {}

\* C22: a create of a Cart for a principal who has one, by the principal, by
\* an administrator or by the loser of a creation race, never answers with an
\* error: it returns the existing Cart.
C22_ConflictAbsorbed ==
    [][\A p \in Procs :
        /\ Answers(p, "cart_create") =>
             /\ \A u \in Users \ AdminGroup :
                  (CartOf(u) # {} /\ CartViewSet_create(p, u))
                  => rsp'.code \in {200, 201} /\ rsp'.ret \in {c.id : c \in CartOf(u)}
             /\ \A u \in AdminGroup, t \in Users :
                  (CartOf(t) # {} /\ CartViewSet_create_admin(p, u, t))
                  => rsp'.code \in {200, 201} /\ rsp'.ret \in {c.id : c \in CartOf(t)}
        /\ (pc[p] = "goc_reget" /\ pc'[p] = "idle" /\ CartOf(loc[p].user) # {})
             => rsp'.code \in {200, 201} /\ rsp'.ret \in {c.id : c \in CartOf(loc[p].user)}]_vars

\* C27: the save of an addLine adds its quantity to the quantity the line
\* holds when it is saved, so no increment of a concurrent addLine is lost.
C27_NoLostUpdate ==
    [][\A p \in Procs :
        (pc[p] = "item_save" /\ pc'[p] = "idle" /\ rsp'.code = 201 /\ loc[p].qty >= 1)
        => \A i \in cartItems :
              i.id = loc[p].item
              => \E j \in cartItems' :
                    j.id = i.id /\ j.quantity = i.quantity + loc[p].qty]_vars

\* C28: the cart deletion of a checkout removes no CartLine that is not in
\* the Order with the same service and quantity.
C28_NoLineLost ==
    [][\A p \in Procs :
        (pc[p] = "co_delete" /\ pc'[p] = "idle")
        => \A i \in cartItems \ cartItems' :
              i.quantity >= 1 =>
              \E o \in orderItems' :
                 o.order = loc[p].order /\ o.service = i.service
                    /\ o.quantity = i.quantity]_vars

\* C30: every step of a checkout for client C leaves the Services, the Carts
\* and CartLines of principals other than C, and the Orders and OrderLines
\* that are not of this checkout as they were.
C30_CheckoutFrame ==
    [][/\ (Responded /\ rsp'.op = "checkout" /\ rsp'.code # 201) => db' = db
       /\ \A p \in Procs :
            /\ (pc[p] = "idle" /\ pc'[p] = "co_order") => db' = db
            /\ (pc[p] \in CheckoutLabels /\ <<pc[p], loc[p]>> # <<pc'[p], loc'[p]>>) =>
                 LET client == loc[p].client
                     order == IF pc[p] = "co_order" THEN nextId.order ELSE loc[p].order
                 IN /\ services' = services
                    /\ \A c \in carts :
                         c.user # client
                         => /\ c \in carts'
                            /\ {i \in cartItems' : i.cart = c.id} = ItemsOf(c.id)
                    /\ {c \in carts' : c.user # client} \subseteq carts
                    /\ \A o \in orders : o.id # order => o \in orders'
                    /\ \A o \in orders' \ orders : o.id = order
                    /\ orderItems \subseteq orderItems'
                    /\ \A i \in orderItems' \ orderItems : i.order = order]_vars

\* C30 witness: an administrator who has a cart of their own has checked out
\* for a client, and the administrator's cart is in place.
C30_Witness ==
    /\ rsp.op = "checkout" /\ rsp.code = 201 /\ rsp.user \in AdminGroup
    /\ CartOf(rsp.user) # {}
    /\ \E o \in orders : o.id = rsp.ret /\ o.client # rsp.user

\* C23: the status of every Order is one of PENDING, ACCEPTED, IN_PROGRESS,
\* COMPLETED and CANCELLED.
C23_StatusInChoices ==
    \A o \in orders : o.status \in Statuses

\* C24: a list of orders by an administrator carries every Order and a
\* retrieve by an administrator returns any Order that exists; a list by a
\* non-admin P carries exactly the Orders whose client is P, and a retrieve by
\* P returns the Order when its client is P and answers not found otherwise.
C24_OrderVisibility ==
    [][(Responded /\ rsp'.op \in {"order_list", "order_retrieve"}) =>
         LET u == rsp'.user
             visible == {o.id : o \in {o \in orders : u \in AdminGroup \/ o.client = u}}
         IN /\ rsp'.op = "order_list" => rsp'.code = 200 /\ rsp'.rows = visible
            /\ rsp'.op = "order_retrieve" =>
                 /\ rsp'.code \in {200, 404}
                 /\ rsp'.code = 200 => rsp'.ret \in visible
                 /\ \A o \in OrderIds :
                      OrderViewSet_retrieve("w1", u, o)
                      => (rsp'.code = 200 <=> o \in visible)]_vars

\* C24 witness: a non-admin has listed orders while an Order of another
\* principal exists, and the list does not carry it.
C24_Witness ==
    /\ rsp.op = "order_list" /\ rsp.user \notin AdminGroup
    /\ \E o \in orders : o.client # rsp.user /\ o.id \notin rsp.rows

\* C25: a delete of an existing user by a member of the Admin group answers
\* 204 and removes the user.
C25_AdminDeletesUser ==
    [][(Responded /\ rsp'.op = "user_destroy" /\ InAdminGroup(rsp'.user)
          /\ rsp'.code # 404)
       => /\ rsp'.code = 204
          /\ \E r \in users \ users' : TRUE]_vars

\* C26: a request looks the Admin membership of its principal up at most
\* once; a role resolver call made when a value is cached returns that value
\* and neither looks up nor changes it; a value is cached only by a lookup of
\* the request's own principal made in that request, and a request starts
\* with no value from an earlier one.
C26_Memoized ==
    [][\A p \in Procs :
        /\ loc'[p].lookups <= 1
        /\ (pc[p] = "role" /\ loc'[p].calls = loc[p].calls + 1) =>
              /\ loc[p].hasCache =>
                    /\ loc'[p].answer = loc[p].cache
                    /\ loc'[p].cache = loc[p].cache
                    /\ loc'[p].lookups = loc[p].lookups
              /\ ~loc[p].hasCache =>
                    /\ loc'[p].answer = InAdminGroup(loc[p].user)
                    /\ loc'[p].hasCache /\ loc'[p].cache = loc'[p].answer
                    /\ loc'[p].lookups = loc[p].lookups + 1
        /\ (pc[p] = "idle" /\ pc'[p] = "role") =>
              /\ loc'[p].calls = 0
              /\ loc'[p].lookups = (IF loc'[p].hasCache THEN 1 ELSE 0)
              /\ loc'[p].hasCache => loc'[p].cache = InAdminGroup(loc'[p].user)]_vars

\* C26 witness: a request has made two role resolver calls with one lookup,
\* and the value returned is the cached one although the membership of the
\* principal has changed since.
C26_Witness ==
    \E p \in Procs :
        /\ pc[p] = "role" /\ loc[p].calls >= 2 /\ loc[p].lookups = 1
        /\ loc[p].answer = loc[p].cache
        /\ loc[p].cache # InAdminGroup(loc[p].user)

\* C29: every step of a cart-item create, update, partial update or delete
\* request of a non-admin P leaves the lines of every cart that P does not
\* own as they were, and puts no line into such a cart.
C29_ForeignLinesUntouched ==
    [][\A p \in Procs :
        LET l == IF pc[p] = "idle" THEN loc'[p] ELSE loc[p]
            u == IF Responded /\ pc[p] = "idle" THEN rsp'.user ELSE l.user
            op == IF Responded /\ pc[p] = "idle" THEN rsp'.op ELSE l.op
        IN (/\ <<pc[p], loc[p]>> # <<pc'[p], loc'[p]>> \/ (Responded /\ pc[p] = "idle")
            /\ op \in {"item_create", "item_update", "item_destroy"}
            /\ u \notin AdminGroup)
           => \A i \in (cartItems \ cartItems') \cup (cartItems' \ cartItems) :
                 \E c \in CartOf(u) : c.id = i.cart]_vars

\* C29 witness: a non-admin who owns a line has asked to move it into the cart
\* of another principal, the request was refused, and that cart's lines are
\* in place.
C29_Witness ==
    /\ rsp.op = "item_update" /\ rsp.code = 400 /\ rsp.detail = "Invalid pk"
    /\ rsp.user \notin AdminGroup
    /\ \E c \in carts : c.user # rsp.user /\ ItemsOf(c.id) # {}
    /\ \E c \in CartOf(rsp.user) : ItemsOf(c.id) # {}

====
